---------------------------- MODULE Spec2Model ----------------------------
(***************************************************************************)
(* A model of the audio matching tools of ffmpeg-scripts:                  *)
(*                                                                         *)
(*   scripts/match-audio.py                one video against an audio dir  *)
(*   scripts/sync-second-room-audio.py     batch, waveform correlation     *)
(*   scripts/match-audio-transcription.py  batch, transcript comparison    *)
(*                                                                         *)
(* ffmpeg, Whisper and the file system are the environment: every call of  *)
(* extract_audio, transcribe_audio and replace_audio draws its outcome     *)
(* from a small set.  The matchers themselves (cross_correlate,            *)
(* text_similarity, find_time_offset_by_words) are computed.               *)
(*                                                                         *)
(* Numbers.  Python floats are modelled by exact rationals [num, den].     *)
(* A waveform score is kept as its square (the score itself is a square    *)
(* root of a rational); every comparison the code makes on waveform scores *)
(* is between non-negative numbers, so it is made on the squares.  The     *)
(* 1e-10 guard of the normalisation is modelled only where it decides the  *)
(* result: a signal of zero variance normalises to the zero signal.        *)
(***************************************************************************)
EXTENDS Integers, Sequences, FiniteSets, TLC

(***************************************************************************)
(* Bounds of the model.                                                    *)
(***************************************************************************)
\* most reference videos selected from the tag store
NumVideos == 2
\* most audio files found in the audio directory
NumAudio == 2

(***************************************************************************)
(* Rationals.                                                              *)
(***************************************************************************)
RECURSIVE GCD(_, _)
GCD(x, y) == IF y = 0 THEN x ELSE GCD(y, x % y)

Abs(x) == IF x < 0 THEN -x ELSE x
Min(x, y) == IF x < y THEN x ELSE y

\* n / d in lowest terms, d > 0
Rat(n, d) == [num |-> n \div GCD(Abs(n), d), den |-> d \div GCD(Abs(n), d)]
Zero == Rat(0, 1)
RatGT(x, y) == x.num * y.den > y.num * x.den
RatGE(x, y) == x.num * y.den >= y.num * x.den
RatLT(x, y) == x.num * y.den < y.num * x.den
RatEQ(x, y) == x.num * y.den = y.num * x.den

RECURSIVE SumSeq(_)
SumSeq(s) == IF s = <<>> THEN 0 ELSE Head(s) + SumSeq(Tail(s))

(***************************************************************************)
(* Python's None where the code holds a candidate or nothing: candidates   *)
(* are numbered from 1 in the order of the sorted file list.               *)
(***************************************************************************)
None == 0

(***************************************************************************)
(* difflib.SequenceMatcher(None, a, b).ratio() on token sequences, as      *)
(* text_similarity and find_time_offset_by_words use it.  Indices are      *)
(* 0-based half-open ranges as in difflib; a[i] of Python is a[i + 1]      *)
(* here.  Neither caller passes a junk function and autojunk only acts on  *)
(* sequences of 200 or more elements.                                      *)
(***************************************************************************)
RECURSIVE CommonRun(_, _, _, _, _, _)
\* length of the common block of a[i:ahi] and b[j:bhi] starting at (i, j)
CommonRun(a, i, ahi, b, j, bhi) ==
    IF i < ahi /\ j < bhi /\ a[i + 1] = b[j + 1]
    THEN 1 + CommonRun(a, i + 1, ahi, b, j + 1, bhi)
    ELSE 0

\* of the blocks (i, j, k): the longest, the one that starts earliest in a,
\* and of those the one that starts earliest in b
first_longest(blocks) ==
    CHOOSE r \in blocks :
      \A q \in blocks :
        \/ q[3] < r[3]
        \/ q[3] = r[3] /\ r[1] < q[1]
        \/ q[3] = r[3] /\ r[1] = q[1] /\ r[2] <= q[2]

\* SequenceMatcher.find_longest_match; (alo, blo, 0) when no element matches
find_longest_match(a, alo, ahi, b, blo, bhi) ==
    IF alo >= ahi \/ blo >= bhi
    THEN <<alo, blo, 0>>
    ELSE first_longest({<<p[1], p[2], CommonRun(a, p[1], ahi, b, p[2], bhi)>> :
                          p \in (alo .. ahi - 1) \X (blo .. bhi - 1)})

RECURSIVE matching_size(_, _, _, _, _, _)
\* SequenceMatcher.get_matching_blocks, summed: the longest block, then the
\* pieces to its left and to its right
matching_size(a, alo, ahi, b, blo, bhi) ==
    LET m == find_longest_match(a, alo, ahi, b, blo, bhi)
        i == m[1]
        j == m[2]
        k == m[3]
    IN  IF k = 0
        THEN 0
        ELSE k
             + (IF alo < i /\ blo < j
                THEN matching_size(a, alo, i, b, blo, j) ELSE 0)
             + (IF i + k < ahi /\ j + k < bhi
                THEN matching_size(a, i + k, ahi, b, j + k, bhi) ELSE 0)

\* SequenceMatcher.ratio: 2.0 * matches / length, and 1.0 when both
\* sequences are empty
ratio(a, b) ==
    IF Len(a) + Len(b) = 0
    THEN Rat(1, 1)
    ELSE Rat(2 * matching_size(a, 0, Len(a), b, 0, Len(b)), Len(a) + Len(b))

(***************************************************************************)
(* Transcripts.  A transcript is the sequence of its whitespace-delimited  *)
(* words; a word is a number, and -w is word w written with capitals, so   *)
(* that str.lower() has something to do.                                   *)
(***************************************************************************)
lower(w) == Abs(w)
\* text.lower().split()
tokens(text) == [i \in 1 .. Len(text) |-> lower(text[i])]

\* mutant: only the first text is lowered
text_similarity_OneLowered(text1, text2) == ratio(tokens(text1), text2)

\* match-audio-transcription.py text_similarity
text_similarity(text1, text2) == ratio(tokens(text1), tokens(text2))

\* a[lo:hi] of Python (0-based, clipped to the sequence)
Slice(s, lo, hi) == SubSeq(s, lo + 1, Min(hi, Len(s)))

WindowWords == 50
WordsPerSecondTimes2 == 5

RECURSIVE best_window(_, _, _, _, _)
\* the loop of find_time_offset_by_words from position i on
best_window(video_words, audio_words, i, best_pos, best_score) ==
    IF i >= Len(audio_words) - Len(video_words) + 1
    THEN best_pos
    ELSE LET chunk == Slice(audio_words, i, i + Len(video_words))
             score == ratio(video_words, chunk)
         IN  IF RatGT(score, best_score)
             THEN best_window(video_words, audio_words, i + 1, i, score)
             ELSE best_window(video_words, audio_words, i + 1, best_pos,
                              best_score)

\* mutant: the reference is not cut to its first words
find_time_offset_by_words_NotCut(video_transcript, audio_transcript) ==
    LET video_words == tokens(video_transcript)
        audio_words == tokens(audio_transcript)
    IN  IF video_words = <<>> \/ audio_words = <<>>
        THEN Zero
        ELSE Rat(2 * best_window(video_words, audio_words, 0, 0, Zero),
                 WordsPerSecondTimes2)

\* match-audio-transcription.py find_time_offset_by_words, in seconds:
\* best_pos / 2.5
find_time_offset_by_words(video_transcript, audio_transcript) ==
    LET video_words == Slice(tokens(video_transcript), 0, WindowWords)
        audio_words == tokens(audio_transcript)
    IN  IF video_words = <<>> \/ audio_words = <<>>
        THEN Zero
        ELSE Rat(2 * best_window(video_words, audio_words, 0, 0, Zero),
                 WordsPerSecondTimes2)

(***************************************************************************)
(* Signals.  A signal is the sequence of its int16 samples; the division   *)
(* by 32768 of load_audio_samples scales both signals and cancels in the   *)
(* normalisation of cross_correlate.                                       *)
(***************************************************************************)
RECURSIVE GCDSeq(_)
GCDSeq(s) == IF s = <<>> THEN 0 ELSE GCD(Abs(Head(s)), GCDSeq(Tail(s)))

\* signal - mean(signal) up to a positive factor, which the division by the
\* standard deviation cancels: n * (signal - mean), which is integral, in
\* lowest terms
centered(signal) ==
    LET c == [i \in 1 .. Len(signal) |->
                Len(signal) * signal[i] - SumSeq(signal)]
        g == GCDSeq(c)
    IN  IF g = 0 THEN c ELSE [i \in 1 .. Len(c) |-> c[i] \div g]

energy(s) == SumSeq([i \in 1 .. Len(s) |-> s[i] * s[i]])

\* scipy.signal.correlate(s1, s2, mode='full')[k], k = 0 .. n1 + n2 - 2:
\* the sum of s1[l] * s2[l - k + n2 - 1]
correlate(s1, s2, k) ==
    SumSeq([l \in 1 .. Len(s1) |->
              LET m == l - k + Len(s2) - 1
              IN  IF m >= 1 /\ m <= Len(s2) THEN s1[l] * s2[m] ELSE 0])

\* np.argmax(np.abs(correlation)): the first index of the maximum
argmax_abs(s1, s2) ==
    LET idx == 0 .. Len(s1) + Len(s2) - 2
        mag(k) == Abs(correlate(s1, s2, k))
    IN  CHOOSE k \in idx :
          /\ \A j \in idx : mag(j) <= mag(k)
          /\ \A j \in idx : j < k => mag(j) < mag(k)

\* mutant: the offset is taken from the length of the reference
cross_correlate_OffsetFromReference(signal1, signal2) ==
    LET A == centered(signal1)
        B == centered(signal2)
        flat == energy(A) = 0 \/ energy(B) = 0
        peak_idx == IF flat THEN 0 ELSE argmax_abs(A, B)
        P == correlate(A, B, peak_idx)
    IN  [offset |-> peak_idx - Len(signal1) + 1,
         score |-> IF flat THEN Zero
                   ELSE Rat(P * P * Len(signal2),
                            Len(signal1) * energy(A) * energy(B))]

\* mutant: the peak is not divided by len(s1)
cross_correlate_ScoreNotDivided(signal1, signal2) ==
    LET A == centered(signal1)
        B == centered(signal2)
        flat == energy(A) = 0 \/ energy(B) = 0
        peak_idx == IF flat THEN 0 ELSE argmax_abs(A, B)
        P == correlate(A, B, peak_idx)
    IN  [offset |-> peak_idx - Len(signal2) + 1,
         score |-> IF flat THEN Zero
                   ELSE Rat(P * P * Len(signal2) * Len(signal1),
                            energy(A) * energy(B))]

\* cross_correlate of match-audio.py and sync-second-room-audio.py (the two
\* bodies are the same): offset in samples, and the square of the score
\*   score = |correlation[peak]| / len(s1)
\* with s1, s2 the signals normalised to zero mean and unit variance.  For
\* A = centered(signal1), B = centered(signal2) and P the peak of the
\* correlation of A and B, score^2 = P^2 * n2 / (n1 * energy(A) * energy(B)).
cross_correlate(signal1, signal2) ==
    LET A == centered(signal1)
        B == centered(signal2)
        flat == energy(A) = 0 \/ energy(B) = 0
        peak_idx == IF flat THEN 0 ELSE argmax_abs(A, B)
        P == correlate(A, B, peak_idx)
    IN  [offset |-> peak_idx - Len(signal2) + 1,
         score |-> IF flat THEN Zero
                   ELSE Rat(P * P * Len(signal2),
                            Len(signal1) * energy(A) * energy(B))]

ANALYSIS_SAMPLE_RATE == 8000

(***************************************************************************)
(* replace_audio: the ffmpeg invocation each tool builds.  The amount of   *)
(* the filter is in seconds; adelay takes int(offset * 1000) milliseconds. *)
(***************************************************************************)
\* int(x * 1000) / 1000 for x >= 0
Millis(x) == Rat((x.num * 1000) \div x.den, 1000)
Neg(x) == Rat(-x.num, x.den)

\* mutant: the two branches are exchanged
wave_replace_audio_Swapped(video, audio, offset_seconds) ==
    IF offset_seconds.num >= 0
    THEN [video |-> video, audio |-> audio, filter |-> "atrim",
          amount |-> offset_seconds]
    ELSE [video |-> video, audio |-> audio, filter |-> "adelay",
          amount |-> Millis(Neg(offset_seconds))]

\* match-audio.py and sync-second-room-audio.py replace_audio
wave_replace_audio(video, audio, offset_seconds) ==
    IF offset_seconds.num >= 0
    THEN [video |-> video, audio |-> audio, filter |-> "adelay",
          amount |-> Millis(offset_seconds)]
    ELSE [video |-> video, audio |-> audio, filter |-> "atrim",
          amount |-> Neg(offset_seconds)]

\* mutant: an offset >= 0 delays the candidate
trans_replace_audio_Delays(video, audio, offset_seconds) ==
    IF offset_seconds.num >= 0
    THEN [video |-> video, audio |-> audio, filter |-> "adelay",
          amount |-> Millis(offset_seconds)]
    ELSE [video |-> video, audio |-> audio, filter |-> "atrim",
          amount |-> Neg(offset_seconds)]

\* match-audio-transcription.py replace_audio
trans_replace_audio(video, audio, offset_seconds) ==
    IF offset_seconds.num >= 0
    THEN [video |-> video, audio |-> audio, filter |-> "atrim",
          amount |-> offset_seconds]
    ELSE [video |-> video, audio |-> audio, filter |-> "adelay",
          amount |-> Millis(Neg(offset_seconds))]

(***************************************************************************)
(* What the environment can hand to the tools.                             *)
(***************************************************************************)
\* twelve samples of a triangle wave
Triangle == <<0, 1, 2, 3, 2, 1, 0, -1, -2, -3, -2, -1>>
\* the decoded audio of a reference video
VideoSignals == {Triangle, <<0, 0, 0>>}
\* the decoded audio of a candidate: the reference itself, the reference
\* two samples late, a click (score 0.047 against Triangle), silence
AudioSignals == {Triangle, <<0, 0>> \o Triangle, <<1, -1>>, <<0, 0>>}

\* what Whisper returns for a reference video
Speech == <<-1, 2, 3, 4, 5, 6, 7, 8, 9, 10>>
VideoTranscripts == {Speech}
\* what Whisper returns for a candidate: against Speech, similarity 10/11
\* (two words early), exactly 3/10, 1/10, and the empty transcript
AudioTranscripts ==
    {<<21, 22, 1, 2, 3, 4, 5, 6, 7, 8, 9, 10>>,
     <<1, 2, 3, 11, 12, 13, 14, 15, 16, 17>>,
     <<1, 31, 32, 33, 34, 35, 36, 37, 38, 39>>,
     <<>>}

(***************************************************************************)
(* The matchers on the inputs above, evaluated once: text_similarity,      *)
(* find_time_offset_by_words and cross_correlate as the tools call them.   *)
(***************************************************************************)
Similarity ==
    [v \in VideoTranscripts, a \in AudioTranscripts |-> text_similarity(v, a)]
WordOffset ==
    [v \in VideoTranscripts, a \in AudioTranscripts |->
       find_time_offset_by_words(v, a)]
Correlation ==
    [v \in VideoSignals, a \in AudioSignals |-> cross_correlate(v, a)]

Tools == {"match-audio", "sync-second-room-audio", "match-audio-transcription"}

\* cache keys f"audio:{audio_file}" and f"video:{video_path}"
AudioKey(a) == <<"audio", a>>
VideoKey(v) == <<"video", v>>
Keys == ({"audio"} \X (1 .. NumAudio)) \cup ({"video"} \X (1 .. NumVideos))

VARIABLES
    tool,              \* which script runs
    dry_run,           \* args.dry_run
    n_videos,          \* len(second_room_videos); match-audio.py: 1
    n_audio,           \* len(audio_files)
    pc,                \* where main is
    exit_code,         \* the status of a process that has ended, -1 before
    exit_msg,          \* the message printed on the way out, "" if none
    response,          \* the answer to Continue anyway? [y/N], "" if not asked
    vi,                \* the video of the current iteration, from 1
    ai,                \* the audio file of the current iteration, from 1
    video_samples,     \* find_best_match: the decoded reference
    best,              \* best_match, best_score, best_offset
    results,           \* the results list of main
    reported,          \* the match lines printed: candidate, score, offset
    summary,           \* whether the SUMMARY table has been printed
    mux_calls,         \* the replace_audio invocations, in order
    extract_calls,     \* extract_audio calls of this run, per file
    transcribe_calls,  \* transcribe_audio calls of this run, per file
    cache,             \* the transcript cache in memory
    loaded,            \* what load_transcripts_cache returned
    disk_cache,        \* the content of transcripts.json
    audio_transcripts, \* the dict audio_transcripts of main
    ref_state,         \* the branch each reference's iteration took
    scored,            \* find_best_match: the candidates scored so far
    call,              \* a matcher called on its own: function and arguments
    returned           \* what that call returned, <<>> before it returns

vars == <<tool, dry_run, n_videos, n_audio, pc, exit_code, exit_msg, response, vi, ai,
          video_samples, best, results, reported, summary, mux_calls,
          extract_calls, transcribe_calls, cache, loaded, disk_cache,
          audio_transcripts, ref_state, scored, call, returned>>

\* a function with no keys: the empty dict
EmptyDict == [k \in {} |-> <<>>]
Put(dict, k, v) == [x \in DOMAIN dict \cup {k} |-> IF x = k THEN v ELSE dict[x]]

NoBest == [match |-> None, score |-> Zero, offset |-> Zero]
Result(name, match, score, offset) ==
    [name |-> name, match |-> match, score |-> score, offset |-> offset]

Init ==
    /\ tool \in Tools
    /\ dry_run \in (IF tool = "match-audio" THEN {FALSE} ELSE BOOLEAN)
    /\ n_videos \in (IF tool = "match-audio" THEN {1} ELSE 0 .. NumVideos)
    /\ n_audio \in 0 .. NumAudio
    /\ pc = "start"
    /\ exit_code = -1
    /\ exit_msg = ""
    /\ response = ""
    /\ vi = 0
    /\ ai = 0
    /\ video_samples = <<>>
    /\ best = NoBest
    /\ results = <<>>
    /\ reported = <<>>
    /\ summary = FALSE
    /\ mux_calls = <<>>
    /\ extract_calls = [k \in Keys |-> 0]
    /\ transcribe_calls = [k \in Keys |-> 0]
    /\ cache = EmptyDict
    /\ loaded = EmptyDict
    /\ disk_cache = EmptyDict
    /\ audio_transcripts = EmptyDict
    /\ ref_state = [v \in 1 .. NumVideos |-> "PENDING"]
    /\ scored = <<>>
    /\ call = [fn |-> "main"]
    /\ returned = <<>>

\* print(msg) and sys.exit(code), or the end of main (code 0, no message)
Exit(code, msg) ==
    /\ pc' = "exited"
    /\ exit_code' = code
    /\ exit_msg' = msg

(***************************************************************************)
(* sync-second-room-audio.py                                               *)
(***************************************************************************)
MIN_SCORE_THRESHOLD == Rat(1, 20)
\* the threshold against a score kept as its square
Squared(x) == Rat(x.num * x.num, x.den * x.den)

\* mutant: the empty pool is let through
NoAudioFiles_Never(n) == FALSE

\* `if not audio_files:` of the two batch tools
NoAudioFiles(n) == n = 0

\* main up to the video loop: the tags file, the Second Room filter, the
\* audio directory
SyncStart ==
    /\ tool = "sync-second-room-audio"
    /\ pc = "start"
    /\ \E tags_exist \in BOOLEAN :
         IF ~tags_exist
         THEN /\ Exit(1, "Tags file not found")
              /\ UNCHANGED vi
         ELSE IF n_videos = 0
         THEN /\ Exit(1, "No Second Room videos found")
              /\ UNCHANGED vi
         ELSE IF NoAudioFiles(n_audio)
         THEN /\ Exit(1, "No audio files found")
              /\ UNCHANGED vi
         ELSE /\ pc' = "videos"
              /\ vi' = 1
              /\ UNCHANGED <<exit_code, exit_msg>>
    /\ UNCHANGED <<response, tool, dry_run, n_videos, n_audio, ai, video_samples, best,
                   results, reported, summary, mux_calls, extract_calls,
                   transcribe_calls, cache, loaded, disk_cache,
                   audio_transcripts, ref_state>>
    /\ UNCHANGED <<scored, call, returned>>

\* one iteration of the video loop up to the candidate loop of
\* find_best_match: the processed video must exist and decode
SyncVideo ==
    /\ tool = "sync-second-room-audio"
    /\ pc = "videos"
    /\ vi <= n_videos
    /\ \E exists \in BOOLEAN, decoded \in VideoSignals \cup {<<>>} :
         IF ~exists
         THEN \* Processed video not found: continue
              /\ ref_state' = [ref_state EXCEPT ![vi] = "NOT_FOUND"]
              /\ vi' = vi + 1
              /\ UNCHANGED <<pc, ai, video_samples, best, results,
                             extract_calls>>
         ELSE /\ extract_calls' =
                    [extract_calls EXCEPT ![VideoKey(vi)] = @ + 1]
              /\ IF decoded = <<>>
                 THEN \* extract_audio failed: find_best_match returns
                      \* None, 0, 0, None and main prints No match found!
                      /\ ref_state' = [ref_state EXCEPT ![vi] = "DECODE_FAILED"]
                      /\ results' = Append(results, Result(vi, None, Zero, Zero))
                      /\ vi' = vi + 1
                      /\ UNCHANGED <<pc, ai, video_samples, best>>
                 ELSE /\ video_samples' = decoded
                      /\ best' = NoBest
                      /\ ai' = 1
                      /\ pc' = "candidates"
                      /\ UNCHANGED <<vi, results, ref_state>>
    /\ scored' = <<>>
    /\ UNCHANGED <<response, tool, dry_run, n_videos, n_audio, exit_code, exit_msg, reported,
                   summary, mux_calls, transcribe_calls, cache, loaded,
                   disk_cache, audio_transcripts>>
    /\ UNCHANGED <<call, returned>>

\* mutant: greater or equal replaces the best so far
Better_OrEqual(score, match, offset, old) ==
    IF RatGE(score, old.score)
    THEN [match |-> match, score |-> score, offset |-> offset]
    ELSE old

\* the ranker's update: strictly greater replaces the best so far
Better(score, match, offset, old) ==
    IF RatGT(score, old.score)
    THEN [match |-> match, score |-> score, offset |-> offset]
    ELSE old

\* one iteration of the candidate loop of find_best_match
SyncCandidate ==
    /\ tool = "sync-second-room-audio"
    /\ pc = "candidates"
    /\ ai <= n_audio
    /\ extract_calls' = [extract_calls EXCEPT ![AudioKey(ai)] = @ + 1]
    /\ \E ext_samples \in AudioSignals \cup {<<>>} :
         IF ext_samples = <<>>
         THEN \* extract_audio failed: continue
              UNCHANGED <<best, scored>>
         ELSE LET c == Correlation[video_samples, ext_samples]
                  offset_seconds == Rat(c.offset, ANALYSIS_SAMPLE_RATE)
              IN  /\ best' = Better(c.score, ai, offset_seconds, best)
                  /\ scored' = Append(scored, [match |-> ai, score |-> c.score,
                                               offset |-> offset_seconds])
    /\ ai' = ai + 1
    /\ UNCHANGED <<response, tool, dry_run, n_videos, n_audio, pc, exit_code, exit_msg, vi,
                   video_samples, results, reported, summary, mux_calls,
                   transcribe_calls, cache, loaded, disk_cache,
                   audio_transcripts, ref_state>>
    /\ UNCHANGED <<call, returned>>

\* mutant: the threshold is not checked
SyncWanted_NoThreshold(dry, score) == ~dry

\* whether main of sync-second-room-audio.py calls replace_audio
SyncWanted(dry, score) ==
    ~dry /\ RatGE(score, Squared(MIN_SCORE_THRESHOLD))

\* the rest of the iteration after find_best_match has returned
SyncVideoDone ==
    /\ tool = "sync-second-room-audio"
    /\ pc = "candidates"
    /\ ai > n_audio
    /\ IF best.match = None
       THEN \* No match found!
            /\ ref_state' = [ref_state EXCEPT ![vi] = "NO_MATCH"]
            /\ results' = Append(results, Result(vi, None, Zero, Zero))
            /\ UNCHANGED <<reported, mux_calls>>
       ELSE /\ reported' =
                 Append(reported, Result(vi, best.match, best.score, best.offset))
            /\ results' =
                 Append(results, Result(vi, best.match, best.score, best.offset))
            /\ IF SyncWanted(dry_run, best.score)
               THEN /\ mux_calls' =
                         Append(mux_calls,
                                wave_replace_audio(vi, best.match, best.offset))
                    /\ ref_state' = [ref_state EXCEPT ![vi] = "SYNCED"]
               ELSE /\ ref_state' = [ref_state EXCEPT ![vi] = "SKIPPED"]
                    /\ UNCHANGED mux_calls
    /\ vi' = vi + 1
    /\ pc' = "videos"
    /\ scored' = <<>>
    /\ UNCHANGED <<response, tool, dry_run, n_videos, n_audio, exit_code, exit_msg, ai,
                   video_samples, best, summary, extract_calls,
                   transcribe_calls, cache, loaded, disk_cache,
                   audio_transcripts>>
    /\ UNCHANGED <<call, returned>>

\* the SUMMARY table, and the end of main
SyncSummary ==
    /\ tool = "sync-second-room-audio"
    /\ pc = "videos"
    /\ vi > n_videos
    /\ summary' = TRUE
    /\ Exit(0, "")
    /\ UNCHANGED <<response, tool, dry_run, n_videos, n_audio, vi, ai, video_samples,
                   best, results, reported, mux_calls, extract_calls,
                   transcribe_calls, cache, loaded, disk_cache,
                   audio_transcripts, ref_state>>
    /\ UNCHANGED <<scored, call, returned>>

(***************************************************************************)
(* match-audio-transcription.py                                            *)
(***************************************************************************)
\* the literal 0.3 of main
ACCEPT_SCORE == Rat(3, 10)

\* an uncaught exception: the traceback, and status 1
Crash ==
    /\ pc' = "crashed"
    /\ exit_code' = 1
    /\ exit_msg' = "Traceback"

\* load_transcripts_cache: the file's content, {} when there is no file
load_transcripts_cache == disk_cache

\* main up to the audio loop: the whisper import, the tags file, the Second
\* Room filter, the audio directory, the cache
TransStart ==
    /\ tool = "match-audio-transcription"
    /\ pc = "start"
    /\ \E whisper_installed \in BOOLEAN, tags_exist \in BOOLEAN :
         IF ~whisper_installed
         THEN /\ Exit(1, "Whisper not installed")
              /\ UNCHANGED <<ai, cache, loaded>>
         ELSE IF ~tags_exist
         THEN /\ Exit(1, "Tags file not found")
              /\ UNCHANGED <<ai, cache, loaded>>
         ELSE IF n_videos = 0
         THEN /\ Exit(1, "No Second Room videos found")
              /\ UNCHANGED <<ai, cache, loaded>>
         ELSE IF NoAudioFiles(n_audio)
         THEN /\ Exit(1, "No audio files found")
              /\ UNCHANGED <<ai, cache, loaded>>
         ELSE /\ pc' = "audio"
              /\ ai' = 1
              /\ cache' = load_transcripts_cache
              /\ loaded' = load_transcripts_cache
              /\ UNCHANGED <<exit_code, exit_msg>>
    /\ UNCHANGED <<response, tool, dry_run, n_videos, n_audio, vi, video_samples, best,
                   results, reported, summary, mux_calls, extract_calls,
                   transcribe_calls, disk_cache, audio_transcripts,
                   ref_state>>
    /\ UNCHANGED <<scored, call, returned>>

\* mutant: the cache is never consulted
Cached_Never(key, dict) == FALSE

\* whether the loop takes the transcript of key from the cache
Cached(key, dict) == key \in DOMAIN dict

\* one iteration of the loop that transcribes the audio files
TransAudio ==
    /\ tool = "match-audio-transcription"
    /\ pc = "audio"
    /\ ai <= n_audio
    /\ IF Cached(AudioKey(ai), cache)
       THEN /\ audio_transcripts' = Put(audio_transcripts, ai, cache[AudioKey(ai)])
            /\ ai' = ai + 1
            /\ UNCHANGED <<pc, exit_code, exit_msg, cache, extract_calls,
                           transcribe_calls>>
       ELSE /\ extract_calls' = [extract_calls EXCEPT ![AudioKey(ai)] = @ + 1]
            /\ \E extracted \in BOOLEAN :
                 IF ~extracted
                 THEN \* Failed to extract audio: continue
                      /\ ai' = ai + 1
                      /\ UNCHANGED <<pc, exit_code, exit_msg, cache, audio_transcripts,
                                     transcribe_calls>>
                 ELSE /\ transcribe_calls' =
                           [transcribe_calls EXCEPT ![AudioKey(ai)] = @ + 1]
                      /\ \/ \* model.transcribe raises; nothing catches it
                            /\ Crash
                            /\ UNCHANGED <<ai, cache, audio_transcripts>>
                         \/ \E transcript \in AudioTranscripts :
                              /\ audio_transcripts' =
                                   Put(audio_transcripts, ai, transcript)
                              /\ cache' = Put(cache, AudioKey(ai), transcript)
                              /\ ai' = ai + 1
                              /\ UNCHANGED <<pc, exit_code, exit_msg>>
    /\ UNCHANGED <<response, tool, dry_run, n_videos, n_audio, vi, video_samples, best,
                   results, reported, summary, mux_calls, loaded, disk_cache,
                   ref_state>>
    /\ UNCHANGED <<scored, call, returned>>

\* save_transcripts_cache(cache) after the audio loop
TransAudioSaved ==
    /\ tool = "match-audio-transcription"
    /\ pc = "audio"
    /\ ai > n_audio
    /\ disk_cache' = cache
    /\ pc' = "videos"
    /\ vi' = 1
    /\ UNCHANGED <<response, tool, dry_run, n_videos, n_audio, exit_code, exit_msg, ai,
                   video_samples, best, results, reported, summary, mux_calls,
                   extract_calls, transcribe_calls, cache, loaded,
                   audio_transcripts, ref_state>>
    /\ UNCHANGED <<scored, call, returned>>

RECURSIVE trans_rank(_, _, _, _, _)
\* the loop over audio_transcripts.items(), in insertion order, from
\* candidate a on
trans_rank(video_transcript, transcripts, a, n, b) ==
    IF a > n
    THEN b
    ELSE IF a \notin DOMAIN transcripts
         THEN trans_rank(video_transcript, transcripts, a + 1, n, b)
         ELSE LET score == Similarity[video_transcript, transcripts[a]]
              IN  trans_rank(video_transcript, transcripts, a + 1, n,
                    IF RatGT(score, b.score)
                    THEN [match |-> a, score |-> score,
                          offset |-> WordOffset[video_transcript,
                                                transcripts[a]]]
                    ELSE b)

\* mutant: --dry-run is not checked
TransWanted_IgnoresDryRun(dry, score) == RatGT(score, ACCEPT_SCORE)

\* whether main of match-audio-transcription.py calls replace_audio
TransWanted(dry, score) ==
    ~dry /\ RatGT(score, ACCEPT_SCORE)

\* the iteration of the video loop from the ranking on
TransMatch(video_transcript) ==
    LET b == trans_rank(video_transcript, audio_transcripts, 1, n_audio, NoBest)
    IN  IF b.match # None
        THEN /\ reported' = Append(reported, Result(vi, b.match, b.score, b.offset))
             /\ results' = Append(results, Result(vi, b.match, b.score, b.offset))
             /\ IF TransWanted(dry_run, b.score)
                THEN /\ mux_calls' =
                          Append(mux_calls,
                                 trans_replace_audio(vi, b.match, b.offset))
                     /\ ref_state' = [ref_state EXCEPT ![vi] = "SYNCED"]
                ELSE /\ ref_state' = [ref_state EXCEPT ![vi] = "SKIPPED"]
                     /\ UNCHANGED mux_calls
        ELSE \* No match found!
             /\ ref_state' = [ref_state EXCEPT ![vi] = "NO_MATCH"]
             /\ results' = Append(results, Result(vi, None, Zero, Zero))
             /\ UNCHANGED <<reported, mux_calls>>

\* the iteration of the video loop when the video's transcript is not cached
TransVideoFresh ==
    /\ extract_calls' = [extract_calls EXCEPT ![VideoKey(vi)] = @ + 1]
    /\ \E extracted \in BOOLEAN :
         IF ~extracted
         THEN \* Failed to extract audio
              /\ ref_state' = [ref_state EXCEPT ![vi] = "DECODE_FAILED"]
              /\ results' = Append(results, Result(vi, None, Zero, Zero))
              /\ vi' = vi + 1
              /\ UNCHANGED <<pc, exit_code, exit_msg, reported, mux_calls,
                             transcribe_calls, cache, disk_cache>>
         ELSE /\ transcribe_calls' =
                   [transcribe_calls EXCEPT ![VideoKey(vi)] = @ + 1]
              /\ \/ \* model.transcribe raises; nothing catches it
                    /\ Crash
                    /\ UNCHANGED <<vi, results, reported, mux_calls, cache,
                                   disk_cache, ref_state>>
                 \/ \E transcript \in VideoTranscripts :
                      /\ cache' = Put(cache, VideoKey(vi), transcript)
                      /\ disk_cache' = cache'
                      /\ TransMatch(transcript)
                      /\ vi' = vi + 1
                      /\ UNCHANGED <<pc, exit_code, exit_msg>>

\* one iteration of the video loop
TransVideo ==
    /\ tool = "match-audio-transcription"
    /\ pc = "videos"
    /\ vi <= n_videos
    /\ \E exists \in BOOLEAN :
         IF ~exists
         THEN \* Video not found
              /\ ref_state' = [ref_state EXCEPT ![vi] = "NOT_FOUND"]
              /\ results' = Append(results, Result(vi, None, Zero, Zero))
              /\ vi' = vi + 1
              /\ UNCHANGED <<pc, exit_code, exit_msg, reported, mux_calls, extract_calls,
                             transcribe_calls, cache, disk_cache>>
         ELSE IF Cached(VideoKey(vi), cache)
         THEN \* Using cached transcript
              /\ TransMatch(cache[VideoKey(vi)])
              /\ vi' = vi + 1
              /\ UNCHANGED <<pc, exit_code, exit_msg, extract_calls, transcribe_calls,
                             cache, disk_cache>>
         ELSE TransVideoFresh
    /\ UNCHANGED <<response, tool, dry_run, n_videos, n_audio, ai, video_samples, best,
                   summary, loaded, audio_transcripts>>
    /\ UNCHANGED <<scored, call, returned>>

\* the SUMMARY table, and the end of main
TransSummary ==
    /\ tool = "match-audio-transcription"
    /\ pc = "videos"
    /\ vi > n_videos
    /\ summary' = TRUE
    /\ Exit(0, "")
    /\ UNCHANGED <<response, tool, dry_run, n_videos, n_audio, vi, ai, video_samples,
                   best, results, reported, mux_calls, extract_calls,
                   transcribe_calls, cache, loaded, disk_cache,
                   audio_transcripts, ref_state>>
    /\ UNCHANGED <<scored, call, returned>>

\* the script is started again over the same files; transcripts.json is
\* what the earlier run left
TransRerun ==
    /\ tool = "match-audio-transcription"
    /\ pc \in {"exited", "crashed"}
    /\ dry_run' \in BOOLEAN
    /\ pc' = "start"
    /\ exit_code' = -1
    /\ exit_msg' = ""
    /\ vi' = 0
    /\ ai' = 0
    /\ results' = <<>>
    /\ reported' = <<>>
    /\ summary' = FALSE
    /\ mux_calls' = <<>>
    /\ extract_calls' = [k \in Keys |-> 0]
    /\ transcribe_calls' = [k \in Keys |-> 0]
    /\ cache' = EmptyDict
    /\ loaded' = EmptyDict
    /\ audio_transcripts' = EmptyDict
    /\ ref_state' = [v \in 1 .. NumVideos |-> "PENDING"]
    /\ UNCHANGED <<response, tool, n_videos, n_audio, video_samples, best, disk_cache>>
    /\ UNCHANGED <<scored, call, returned>>

(***************************************************************************)
(* match-audio.py                                                          *)
(***************************************************************************)
\* the default of --threshold
DEFAULT_THRESHOLD == Rat(1, 10)

\* main up to the candidate loop of find_best_match: the video file and the
\* audio directory must exist, the directory must hold audio files and the
\* video must decode; find_best_match returns None, 0, 0 otherwise and main
\* exits with No matching audio found!
MatchStart ==
    /\ tool = "match-audio"
    /\ pc = "start"
    /\ \E video_exists \in BOOLEAN, dir_exists \in BOOLEAN :
         IF ~video_exists
         THEN /\ Exit(1, "Video file not found")
              /\ UNCHANGED <<vi, ai, video_samples, best, extract_calls,
                             ref_state>>
         ELSE IF ~dir_exists
         THEN /\ Exit(1, "Audio directory not found")
              /\ UNCHANGED <<vi, ai, video_samples, best, extract_calls,
                             ref_state>>
         ELSE IF n_audio = 0
         THEN \* No audio files found in the directory
              /\ Exit(1, "No matching audio found!")
              /\ ref_state' = [ref_state EXCEPT ![1] = "NO_MATCH"]
              /\ UNCHANGED <<vi, ai, video_samples, best, extract_calls>>
         ELSE /\ extract_calls' = [extract_calls EXCEPT ![VideoKey(1)] = @ + 1]
              /\ \E decoded \in VideoSignals \cup {<<>>} :
                   IF decoded = <<>>
                   THEN \* Failed to extract audio from video
                        /\ Exit(1, "No matching audio found!")
                        /\ ref_state' = [ref_state EXCEPT ![1] = "DECODE_FAILED"]
                        /\ UNCHANGED <<vi, ai, video_samples, best>>
                   ELSE /\ video_samples' = decoded
                        /\ best' = NoBest
                        /\ vi' = 1
                        /\ ai' = 1
                        /\ pc' = "candidates"
                        /\ UNCHANGED <<exit_code, exit_msg, ref_state>>
    /\ scored' = <<>>
    /\ UNCHANGED <<response, tool, dry_run, n_videos, n_audio, results, reported,
                   summary, mux_calls, transcribe_calls, cache, loaded,
                   disk_cache, audio_transcripts>>
    /\ UNCHANGED <<call, returned>>

\* one iteration of the candidate loop of find_best_match
MatchCandidate ==
    /\ tool = "match-audio"
    /\ pc = "candidates"
    /\ ai <= n_audio
    /\ extract_calls' = [extract_calls EXCEPT ![AudioKey(ai)] = @ + 1]
    /\ \E ext_samples \in AudioSignals \cup {<<>>} :
         IF ext_samples = <<>>
         THEN \* SKIP (extraction failed)
              UNCHANGED <<best, scored>>
         ELSE LET c == Correlation[video_samples, ext_samples]
                  offset_seconds == Rat(c.offset, ANALYSIS_SAMPLE_RATE)
              IN  /\ best' = Better(c.score, ai, offset_seconds, best)
                  /\ scored' = Append(scored, [match |-> ai, score |-> c.score,
                                               offset |-> offset_seconds])
    /\ ai' = ai + 1
    /\ UNCHANGED <<response, tool, dry_run, n_videos, n_audio, pc, exit_code, exit_msg, vi,
                   video_samples, results, reported, summary, mux_calls,
                   transcribe_calls, cache, loaded, disk_cache,
                   audio_transcripts, ref_state>>
    /\ UNCHANGED <<call, returned>>

\* `if score < args.threshold:`
BelowThreshold(score) == RatLT(score, Squared(DEFAULT_THRESHOLD))

\* whether main of match-audio.py goes on to replace_audio: a score below
\* the threshold asks Continue anyway? [y/N]
MatchWanted(score, answer) ==
    ~BelowThreshold(score) \/ answer = "y"

\* main after find_best_match has returned
MatchDone ==
    /\ tool = "match-audio"
    /\ pc = "candidates"
    /\ ai > n_audio
    /\ IF best.match = None
       THEN \* No matching audio found!
            /\ Exit(1, "No matching audio found!")
            /\ ref_state' = [ref_state EXCEPT ![1] = "NO_MATCH"]
            /\ UNCHANGED <<reported, mux_calls, response>>
       ELSE /\ reported' =
                 Append(reported, Result(1, best.match, best.score, best.offset))
            /\ \E answer \in {"y", "n"}, muxed \in BOOLEAN :
                 /\ response' = IF BelowThreshold(best.score) THEN answer ELSE ""
                 /\ IF MatchWanted(best.score, answer)
                    THEN /\ mux_calls' =
                              Append(mux_calls,
                                     wave_replace_audio(1, best.match, best.offset))
                         /\ ref_state' = [ref_state EXCEPT ![1] = "SYNCED"]
                         /\ IF muxed
                            THEN Exit(0, "")
                            ELSE Exit(1, "Failed to replace audio")
                    ELSE /\ Exit(1, "")
                         /\ ref_state' = [ref_state EXCEPT ![1] = "SKIPPED"]
                         /\ UNCHANGED mux_calls
    /\ scored' = <<>>
    /\ UNCHANGED <<tool, dry_run, n_videos, n_audio, vi, ai, video_samples,
                   best, results, summary, extract_calls, transcribe_calls,
                   cache, loaded, disk_cache, audio_transcripts>>
    /\ UNCHANGED <<call, returned>>

(***************************************************************************)
(* The matchers called on their own, as a test of the module calls them:   *)
(* the arguments are drawn when the call is set up, the step applies the   *)
(* function.                                                               *)
(***************************************************************************)
\* most words of a drawn transcript
MaxWords == 3
\* most samples of a drawn signal
MaxSamples == 3
\* most samples a copy of a signal is shifted by
MaxShift == 4

\* the words of the drawn transcripts; -1 is word 1 with a capital
Vocabulary == {-1, 1, 2, 3}
Texts == UNION {[1 .. n -> Vocabulary] : n \in 0 .. MaxWords}
\* a transcript of more than fifty words, and the candidates it is looked
\* for in: itself, and its first fifty words after one other word
LongSpeech == [i \in 1 .. 52 |-> 100 + i]
LongTexts == {LongSpeech, <<7>> \o SubSeq(LongSpeech, 1, 50)}

\* the sample values of the drawn signals
Levels == {-1, 0, 1}
ShortSignals == UNION {[1 .. n -> Levels] : n \in 1 .. MaxSamples}
\* the signals a shifted copy is made of: one period of a triangle wave, two
\* periods of a square-ish wave, a burst that is not periodic (all of mean
\* zero), and a burst on top of a constant
Wave == <<0, 2, 0, -2, 0, 2, 0, -2>>
Burst == <<3, -1, -2, 4, -4, 1, -1>>
Biased == <<1, 2, 4, 1, 1>>
BaseSignals == {Triangle, Wave, Burst, Biased}

Silence(k) == [i \in 1 .. k |-> 0]
\* x after k samples of silence
Delayed(x, k) == Silence(k) \o x
\* x without its first k samples, for k up to half its length
Cut(x, k) == SubSeq(x, k + 1, Len(x))
\* the window of len(x) samples, k samples on, of x repeated for ever
Rotated(x, k) == [i \in 1 .. Len(x) |-> x[((i - 1 + k) % Len(x)) + 1]]

\* a signal and the number of samples its copy is shifted by
Shifts ==
    UNION {{<<x, k>> : k \in 0 .. Min(MaxShift, Len(x) - 1)} : x \in BaseSignals}

\* the calls of text_similarity: every pair of short transcripts
TextSimilarityCalls ==
    {[fn |-> "text_similarity", text1 |-> a, text2 |-> b] :
       a \in Texts, b \in Texts}

\* the calls of find_time_offset_by_words: short transcripts, and a
\* transcript of more than fifty words
FindTimeOffsetCalls ==
    {[fn |-> "find_time_offset_by_words",
      video_transcript |-> v, audio_transcript |-> a] :
       v \in Texts \cup {LongSpeech}, a \in Texts \cup LongTexts}

\* the calls of cross_correlate: every pair of short signals, and a signal
\* with a copy of it shifted by a known number of samples
CrossCorrelateCalls ==
    {[fn |-> "cross_correlate", signal1 |-> x, signal2 |-> y,
      how |-> "any", shift |-> 0] : x \in ShortSignals, y \in ShortSignals}
    \cup
    {[fn |-> "cross_correlate", signal1 |-> Delayed(p[1], p[2]),
      signal2 |-> p[1], how |-> "reference delayed", shift |-> p[2]] :
       p \in Shifts}
    \cup
    {[fn |-> "cross_correlate", signal1 |-> p[1],
      signal2 |-> Delayed(p[1], p[2]), how |-> "candidate delayed",
      shift |-> p[2]] : p \in Shifts}
    \cup
    {[fn |-> "cross_correlate", signal1 |-> p[1], signal2 |-> Cut(p[1], p[2]),
      how |-> "candidate cut", shift |-> p[2]] :
       p \in {q \in Shifts : 2 * q[2] <= Len(q[1])}}
    \cup
    {[fn |-> "cross_correlate", signal1 |-> p[1],
      signal2 |-> Rotated(p[1], p[2]), how |-> "candidate rotated",
      shift |-> p[2]] : p \in Shifts}

\* no script runs: the variables of main keep the values they start with
NoRun ==
    /\ tool = "match-audio"
    /\ dry_run = FALSE
    /\ n_videos = 1
    /\ n_audio = 0
    /\ pc = "start"
    /\ exit_code = -1
    /\ exit_msg = ""
    /\ response = ""
    /\ vi = 0
    /\ ai = 0
    /\ video_samples = <<>>
    /\ best = NoBest
    /\ results = <<>>
    /\ reported = <<>>
    /\ summary = FALSE
    /\ mux_calls = <<>>
    /\ extract_calls = [k \in Keys |-> 0]
    /\ transcribe_calls = [k \in Keys |-> 0]
    /\ cache = EmptyDict
    /\ loaded = EmptyDict
    /\ disk_cache = EmptyDict
    /\ audio_transcripts = EmptyDict
    /\ ref_state = [v \in 1 .. NumVideos |-> "PENDING"]
    /\ scored = <<>>

MatcherInit ==
    /\ NoRun
    /\ \/ call \in TextSimilarityCalls
       \/ call \in FindTimeOffsetCalls
       \/ call \in CrossCorrelateCalls
    /\ returned = <<>>

mainvars ==
    <<tool, dry_run, n_videos, n_audio, pc, exit_code, exit_msg, response, vi,
      ai, video_samples, best, results, reported, summary, mux_calls,
      extract_calls, transcribe_calls, cache, loaded, disk_cache,
      audio_transcripts, ref_state, scored>>

CallTextSimilarity ==
    /\ call.fn = "text_similarity"
    /\ returned = <<>>
    /\ returned' = <<text_similarity(call.text1, call.text2)>>
    /\ UNCHANGED <<call, mainvars>>

CallFindTimeOffsetByWords ==
    /\ call.fn = "find_time_offset_by_words"
    /\ returned = <<>>
    /\ returned' = <<find_time_offset_by_words(call.video_transcript,
                                               call.audio_transcript)>>
    /\ UNCHANGED <<call, mainvars>>

CallCrossCorrelate ==
    /\ call.fn = "cross_correlate"
    /\ returned = <<>>
    /\ returned' = <<cross_correlate(call.signal1, call.signal2)>>
    /\ UNCHANGED <<call, mainvars>>

MatcherNext ==
    \/ CallTextSimilarity
    \/ CallFindTimeOffsetByWords
    \/ CallCrossCorrelate

MatcherSpec == MatcherInit /\ [][MatcherNext]_vars

Next ==
    \/ SyncStart
    \/ SyncVideo
    \/ SyncCandidate
    \/ SyncVideoDone
    \/ SyncSummary
    \/ TransStart
    \/ TransAudio
    \/ TransAudioSaved
    \/ TransVideo
    \/ TransSummary
    \/ TransRerun
    \/ MatchStart
    \/ MatchCandidate
    \/ MatchDone

Spec == Init /\ [][Next]_vars

(***************************************************************************)
(* The claims.                                                             *)
(***************************************************************************)
Batch == tool \in {"sync-second-room-audio", "match-audio-transcription"}
Finished == pc \in {"exited", "crashed"}
Range(seq) == {seq[i] : i \in DOMAIN seq}

\* the accept threshold of the running tool, against the scores it keeps
Threshold ==
    IF tool = "sync-second-room-audio" THEN Squared(MIN_SCORE_THRESHOLD)
    ELSE IF tool = "match-audio-transcription" THEN ACCEPT_SCORE
    ELSE Squared(DEFAULT_THRESHOLD)

\* replace_audio has been requested for reference v
Muxed(v) == \E i \in DOMAIN mux_calls : mux_calls[i].video = v
\* the winners the ranker has returned for reference v
Winners(v) == {r \in Range(results) : r.name = v /\ r.match # None}

\* C1: in both batch orchestrators replace_audio is requested for a
\* reference if and only if dry-run is off, the ranker returned a winner and
\* the winner's score is greater than or equal to the accept threshold (a
\* score equal to the threshold is synced).
C1_SyncedIffAccepted ==
    Batch =>
      \A v \in 1 .. NumVideos :
        Muxed(v) <=> /\ ~dry_run
                     /\ \E r \in Winners(v) : RatGE(r.score, Threshold)

\* the winners of reference v in any of the three tools; match-audio.py
\* keeps its one winner in best
WinnersOf(v) ==
    IF tool = "match-audio"
    THEN IF v = 1 /\ pc = "exited" /\ best.match # None
         THEN {Result(1, best.match, best.score, best.offset)}
         ELSE {}
    ELSE Winners(v)

\* C2: in every tool a winner whose score is below the accept threshold
\* never leads to a call of replace_audio, and its candidate, score and
\* offset are still reported.
C2_BelowThresholdNeverMuxed ==
    \A v \in 1 .. NumVideos :
      \A w \in WinnersOf(v) :
        RatLT(w.score, Threshold) => ~Muxed(v) /\ w \in Range(reported)

\* C2 as amended: a winner below the threshold is reported in every tool;
\* the batch orchestrators never call replace_audio for it, and
\* match-audio.py calls it exactly when the user answers y to
\* Continue anyway?
C2_BelowThresholdMuxedOnlyOnConfirm ==
    \A v \in 1 .. NumVideos :
      \A w \in WinnersOf(v) :
        RatLT(w.score, Threshold) =>
          /\ w \in Range(reported)
          /\ Muxed(v) <=> (tool = "match-audio" /\ response = "y")

\* a batch run with dry-run off has printed its summary and holds a reported
\* winner below the threshold
C2_Witness ==
    /\ Batch
    /\ ~dry_run
    /\ summary
    /\ \E v \in 1 .. NumVideos :
         \E w \in WinnersOf(v) :
           RatLT(w.score, Threshold) /\ w \in Range(reported)

\* C3: in a batch run started with --dry-run replace_audio is never
\* invoked.
C3_DryRunNeverMuxes ==
    (Batch /\ dry_run) => mux_calls = <<>>

\* a dry run has printed its summary and holds a winner above the threshold
C3_Witness ==
    /\ Batch
    /\ dry_run
    /\ summary
    /\ \E v \in 1 .. NumVideos :
         \E w \in Winners(v) : RatGT(w.score, Threshold)

\* C4: within one batch run each candidate audio file is decoded
\* (extract_audio) at most once and transcribed at most once, however many
\* references are evaluated, in both orchestrators.
C4_CandidateDecodedOnce ==
    Batch =>
      \A a \in 1 .. NumAudio :
        /\ extract_calls[AudioKey(a)] <= 1
        /\ transcribe_calls[AudioKey(a)] <= 1

\* C5: every transcript put into the cache is in the durable cache, with
\* the same text, before the next transcription starts.
C5_PutIsPersisted ==
    tool = "match-audio-transcription" =>
      \A k \in DOMAIN cache :
        k \in DOMAIN disk_cache /\ disk_cache[k] = cache[k]

\* the references of the run that the video loop has ranked
Ranked(v) == ref_state[v] \in {"SYNCED", "SKIPPED", "NO_MATCH"}

\* C6: for every key of the cache an earlier run persisted, the later run
\* calls neither extract_audio nor transcribe_audio and uses the stored
\* transcript unchanged: the cache keeps it, the candidate is ranked with it
\* and the reference is matched with it.
C6_CachedKeysNotRecomputed ==
    tool = "match-audio-transcription" =>
      /\ \A k \in DOMAIN loaded :
           /\ extract_calls[k] = 0
           /\ transcribe_calls[k] = 0
           /\ k \in DOMAIN cache
           /\ cache[k] = loaded[k]
      /\ \A a \in DOMAIN audio_transcripts :
           AudioKey(a) \in DOMAIN loaded =>
             audio_transcripts[a] = loaded[AudioKey(a)]
      /\ \A v \in 1 .. NumVideos :
           (VideoKey(v) \in DOMAIN loaded /\ Ranked(v)) =>
             LET b == trans_rank(loaded[VideoKey(v)], audio_transcripts, 1,
                                 n_audio, NoBest)
             IN  Result(v, b.match, b.score, b.offset) \in Range(results)

\* a later run has printed its summary; it found a candidate and a reference
\* in the loaded cache and had to transcribe another candidate
C6_Witness ==
    /\ tool = "match-audio-transcription"
    /\ summary
    /\ \E a \in 1 .. NumAudio, v \in 1 .. NumVideos :
         /\ AudioKey(a) \in DOMAIN loaded
         /\ VideoKey(v) \in DOMAIN loaded
         /\ Ranked(v)
    /\ \E a \in 1 .. NumAudio :
         /\ AudioKey(a) \notin DOMAIN loaded
         /\ transcribe_calls[AudioKey(a)] = 1

\* the messages of the checks main makes before its loops
StartupErrors ==
    {"Whisper not installed", "Tags file not found",
     "No Second Room videos found", "No audio files found"}

\* C7: a failure on one reference or one candidate never aborts the batch:
\* a run that got past its start-up checks and has ended has evaluated every
\* reference and has printed the summary.
C7_FailureNeverAborts ==
    (Batch /\ Finished /\ exit_msg \notin StartupErrors) =>
      /\ summary
      /\ \A v \in 1 .. n_videos : ref_state[v] # "PENDING"

\* C8: when the summary is printed the results hold exactly one entry for
\* every selected reference, the not found and the not decoded included.
C8_OneEntryPerReference ==
    (Batch /\ summary) =>
      \A v \in 1 .. n_videos :
        Cardinality({i \in DOMAIN results : results[i].name = v}) = 1

\* what the run has recorded for reference v, the name apart
Recorded(v) ==
    {[match |-> r.match, score |-> r.score, offset |-> r.offset] :
       r \in {x \in Range(results) : x.name = v}}

\* C9: what is recorded for a reference the ranker found no winner for
\* differs from what is recorded for a reference that failed (video missing,
\* decode failed).
C9_NoWinnerDistinctFromFailed ==
    Batch =>
      \A v, w \in 1 .. NumVideos :
        (/\ ref_state[v] = "NO_MATCH"
         /\ ref_state[w] \in {"NOT_FOUND", "DECODE_FAILED"}
         /\ Recorded(w) # {}) => Recorded(v) # Recorded(w)

\* C10: an empty candidate pool is not an error: a run over an empty pool
\* that got past the other start-up checks ends with a status that does not
\* signal failure, a batch run with every reference processed and the
\* summary printed.
C10_NoCandidatesIsNotAnError ==
    (/\ Finished
     /\ n_audio = 0
     /\ exit_msg \notin {"Whisper not installed", "Tags file not found",
                         "No Second Room videos found",
                         "Video file not found", "Audio directory not found"}) =>
      /\ exit_code = 0
      /\ Batch => /\ summary
                  /\ \A v \in 1 .. n_videos : ref_state[v] # "PENDING"

\* C10 as amended: an empty pool ends a batch run at start-up with status 1,
\* no reference processed and no summary; a reference ranked against
\* candidates that all failed is recorded with no match, and a batch run
\* that prints its summary exits with status 0; match-audio.py exits with
\* status 1 when it finds no match.
C10_EmptyPoolIsStartupError ==
    /\ (Batch /\ Finished /\ n_audio = 0) =>
         /\ exit_code = 1
         /\ ~summary
         /\ results = <<>>
         /\ \A v \in 1 .. NumVideos : ref_state[v] = "PENDING"
    /\ (Batch /\ summary) => exit_code = 0
    /\ Batch =>
         \A v \in 1 .. NumVideos :
           /\ ref_state[v] = "NO_MATCH" =>
                Recorded(v) = {[match |-> None, score |-> Zero, offset |-> Zero]}
           /\ (/\ tool = "match-audio-transcription"
               /\ audio_transcripts = EmptyDict
               /\ Ranked(v)) => ref_state[v] = "NO_MATCH"
    /\ (tool = "match-audio" /\ ref_state[1] = "NO_MATCH") =>
         /\ exit_code = 1
         /\ exit_msg = "No matching audio found!"

\* a batch run over an empty pool has ended with No audio files found
C10_Witness ==
    /\ Batch
    /\ Finished
    /\ n_audio = 0
    /\ exit_msg = "No audio files found"

\* the filter and amount replace_audio was called with for the winner w of
\* reference v, as the waveform tools build them
DelayedOrTrimmed(c, w) ==
    /\ w.offset.num > 0 => c.filter = "adelay" /\ c.amount = Millis(w.offset)
    /\ w.offset.num < 0 => c.filter = "atrim" /\ c.amount = Neg(w.offset)

\* C12: in every tool the offset of the match result is passed to
\* replace_audio under one sign convention: a positive offset delays the
\* candidate audio by that amount (adelay), a negative one trims that amount
\* from its start (atrim).
C12_OneSignConvention ==
    \A i \in DOMAIN mux_calls :
      \A w \in WinnersOf(mux_calls[i].video) :
        /\ mux_calls[i].audio = w.match
        /\ DelayedOrTrimmed(mux_calls[i], w)

\* C12 as amended: match-audio.py and sync-second-room-audio.py delay the
\* candidate for an offset >= 0 and trim it for a negative one;
\* match-audio-transcription.py counts the offset the other way (positive:
\* the audio starts before the video) and trims the candidate by an offset
\* >= 0.
C12_ConventionPerTool ==
    \A i \in DOMAIN mux_calls :
      \A w \in WinnersOf(mux_calls[i].video) :
        /\ mux_calls[i].audio = w.match
        /\ tool # "match-audio-transcription" =>
             /\ DelayedOrTrimmed(mux_calls[i], w)
             /\ w.offset.num = 0 =>
                  mux_calls[i].filter = "adelay" /\ mux_calls[i].amount = Zero
        /\ tool = "match-audio-transcription" =>
             (w.offset.num >= 0 =>
                mux_calls[i].filter = "atrim" /\ mux_calls[i].amount = w.offset)

\* the transcript orchestrator has trimmed a candidate by a positive offset
\* and a waveform tool has trimmed one for a negative offset
C12_Witness ==
    \E i \in DOMAIN mux_calls :
      \E w \in WinnersOf(mux_calls[i].video) :
        /\ mux_calls[i].filter = "atrim"
        /\ \/ tool = "match-audio-transcription" /\ w.offset.num > 0
           \/ tool = "sync-second-room-audio" /\ w.offset.num < 0

\* of the evaluations evals (candidate, score, offset, in iteration order):
\* the first whose score is the greatest, if that is above 0
FirstMax(evals) ==
    LET top == {i \in DOMAIN evals :
                  /\ RatGT(evals[i].score, Zero)
                  /\ \A j \in DOMAIN evals :
                       RatGE(evals[i].score, evals[j].score)}
    IN  IF top = {}
        THEN NoBest
        ELSE LET i == CHOOSE i \in top : \A j \in top : i <= j
             IN  [match |-> evals[i].match, score |-> evals[i].score,
                  offset |-> evals[i].offset]

\* what the transcript orchestrator evaluates for reference v: every
\* candidate that has a transcript, against the transcript of v
TransEvals(v) ==
    [a \in DOMAIN audio_transcripts |->
       [match |-> a,
        score |-> Similarity[cache[VideoKey(v)], audio_transcripts[a]],
        offset |-> WordOffset[cache[VideoKey(v)], audio_transcripts[a]]]]

\* the entry of results for a ranking that ended with b
Entry(v, b) == Result(v, b.match, b.score, b.offset)

\* C16: the ranker returns the earliest candidate in iteration order whose
\* score is the maximum over the candidates that were evaluated, with that
\* candidate's own score and offset; a later candidate with an equal score
\* does not replace it, and when no score is above 0 the result is none, 0, 0.
C16_FirstOfTheBestWins ==
    /\ (tool # "match-audio-transcription" /\ pc = "candidates") =>
         best = FirstMax(scored)
    /\ (tool = "sync-second-room-audio" /\ pc = "videos" /\ vi > 1) =>
         (Ranked(vi - 1) => Entry(vi - 1, best) \in Range(results))
    /\ tool = "match-audio-transcription" =>
         \A v \in 1 .. NumVideos :
           Ranked(v) => Entry(v, FirstMax(TransEvals(v))) \in Range(results)

\* a waveform ranker has scored two candidates the same, above 0, and holds
\* the first
C16_Witness ==
    /\ tool = "sync-second-room-audio"
    /\ pc = "candidates"
    /\ Len(scored) = 2
    /\ scored[1].score = scored[2].score
    /\ RatGT(scored[1].score, Zero)
    /\ best.match = scored[1].match

\* the candidates the loop of find_best_match has passed without scoring
\* them: their extraction failed
NotScored ==
    {a \in 1 .. ai - 1 : \A i \in DOMAIN scored : scored[i].match # a}

\* the candidates the audio loop of the transcript orchestrator has left
\* without a transcript: their extraction failed
NotTranscribed == (1 .. n_audio) \ DOMAIN audio_transcripts

\* model.transcribe has raised on candidate ai and the run has ended there
CandidateAbortedRun ==
    /\ tool = "match-audio-transcription"
    /\ pc = "crashed"
    /\ ai \in 1 .. n_audio
    /\ transcribe_calls[AudioKey(ai)] > 0
    /\ ai \notin DOMAIN audio_transcripts

\* C18: a candidate whose extraction or transcription fails is excluded from
\* the ranking and has no effect on the rest: it is never the winner, the
\* winner, score and offset are those of the ranking over the candidates
\* that did not fail, and the run goes on with the other candidates and the
\* references.
C18_FailingCandidateHasNoEffect ==
    /\ (tool # "match-audio-transcription" /\ pc = "candidates") =>
         /\ best.match \notin NotScored
         /\ best = FirstMax(scored)
    /\ (tool = "match-audio-transcription" /\ pc \in {"videos", "exited"}) =>
         \A i \in DOMAIN results :
           /\ results[i].match \notin NotTranscribed
           /\ Ranked(results[i].name) =>
                results[i] = Entry(results[i].name,
                                   FirstMax(TransEvals(results[i].name)))
    /\ ~CandidateAbortedRun

\* C19: in the transcript orchestrator the offset of every match result is
\* non-negative, so replace_audio never takes its negative-offset branch: the
\* candidate audio is only ever trimmed (atrim), never delayed (adelay).
C19_TranscriptOffsetsNeverNegative ==
    tool = "match-audio-transcription" =>
      /\ \A i \in DOMAIN results : results[i].offset.num >= 0
      /\ \A i \in DOMAIN reported : reported[i].offset.num >= 0
      /\ \A i \in DOMAIN mux_calls :
           /\ mux_calls[i].filter = "atrim"
           /\ mux_calls[i].amount.num >= 0

\* the transcript orchestrator has finished a run in which it trimmed a
\* candidate by an offset above 0
C19_Witness ==
    /\ tool = "match-audio-transcription"
    /\ summary
    /\ \E i \in DOMAIN mux_calls, j \in DOMAIN results :
         /\ results[j].name = mux_calls[i].video
         /\ results[j].match = mux_calls[i].audio
         /\ results[j].offset.num > 0
         /\ mux_calls[i].filter = "atrim"
         /\ mux_calls[i].amount = results[j].offset

(***************************************************************************)
(* The claims on the matchers, under MatcherSpec.                          *)
(***************************************************************************)
\* the call has returned from fn
Returned(fn) == call.fn = fn /\ returned # <<>>
\* 0 <= x <= 1
InUnit(x) == x.num >= 0 /\ x.num <= x.den

\* C11: every score lies in [0, 1]: the waveform score, for candidates of
\* any length relative to the reference, and the transcript similarity.
C11_ScoreInUnitInterval ==
    /\ Returned("text_similarity") => InUnit(returned[1])
    /\ Returned("cross_correlate") => InUnit(returned[1].score)

\* C11 as amended: the transcript similarity lies in [0, 1]; the waveform
\* score is at least 0 and at most sqrt(len(candidate) / len(reference)),
\* so at most 1 when the candidate is not longer than the reference.  The
\* score is kept as its square.
C11_ScoreBoundedByLengths ==
    /\ Returned("text_similarity") => InUnit(returned[1])
    /\ Returned("cross_correlate") =>
         /\ returned[1].score.num >= 0
         /\ returned[1].score.num * Len(call.signal1)
              <= returned[1].score.den * Len(call.signal2)
         /\ Len(call.signal2) <= Len(call.signal1) => InUnit(returned[1].score)

\* cross_correlate has returned a score above 1 for a candidate longer than
\* the reference
C11_Witness ==
    /\ Returned("cross_correlate")
    /\ Len(call.signal2) > Len(call.signal1)
    /\ returned[1].score.num > returned[1].score.den

One == Rat(1, 1)

\* C13: text_similarity is symmetric and reflexive: text_similarity(A, B)
\* equals text_similarity(B, A), and text_similarity(T, T) equals 1.0.
C13_SymmetricAndReflexive ==
    Returned("text_similarity") =>
      /\ returned[1] = text_similarity(call.text2, call.text1)
      /\ call.text1 = call.text2 => returned[1] = One

\* C13 as amended: text_similarity is reflexive, and 1.0 for transcripts
\* that differ in capitals only; it is not symmetric, only its extremes
\* are: text_similarity(A, B) is 0 exactly when text_similarity(B, A) is 0,
\* and 1.0 exactly when text_similarity(B, A) is 1.0.
C13_ReflexiveNotSymmetric ==
    Returned("text_similarity") =>
      LET swapped == text_similarity(call.text2, call.text1)
      IN  /\ tokens(call.text1) = tokens(call.text2) => returned[1] = One
          /\ returned[1] = Zero <=> swapped = Zero
          /\ returned[1] = One <=> swapped = One

\* text_similarity has returned for a transcript of MaxWords words and the
\* same transcript
C13_Witness ==
    /\ Returned("text_similarity")
    /\ call.text1 = call.text2
    /\ Len(call.text1) = MaxWords
    /\ returned[1] = One

\* C14: when at least one of the two transcripts has no tokens (both
\* included), text_similarity returns 0 and find_time_offset_by_words
\* returns 0, so the ranker's test score > best_score never selects the pair.
C14_EmptyTranscriptScoresZero ==
    /\ (/\ Returned("text_similarity")
        /\ tokens(call.text1) = <<>> \/ tokens(call.text2) = <<>>) =>
         /\ returned[1] = Zero
         /\ ~RatGT(returned[1], NoBest.score)
    /\ (/\ Returned("find_time_offset_by_words")
        /\ \/ tokens(call.video_transcript) = <<>>
           \/ tokens(call.audio_transcript) = <<>>) =>
         returned[1] = Zero

\* the shift the call was built with, counted as the tools count an offset:
\* positive when the candidate is ahead of the reference
KnownShift ==
    IF call.how = "candidate delayed" THEN -call.shift ELSE call.shift

\* C15: for every signal x that is not silent, periodic ones included, and
\* every shift k within its length, cross_correlate of x and a copy of x
\* shifted by k samples returns offset_samples = k.
C15_ShiftRecovered ==
    (Returned("cross_correlate") /\ call.how # "any") =>
      returned[1].offset = KnownShift

\* C15 as amended: for every signal x of mean zero that is not silent, whole
\* periods of a wave included, cross_correlate returns k when the reference is
\* x after k samples of silence and the candidate is x, and -k when the
\* candidate is x after k samples of silence and the reference is x.
C15_SilencePaddedShiftRecovered ==
    /\ (/\ Returned("cross_correlate")
        /\ call.how = "reference delayed"
        /\ SumSeq(call.signal2) = 0) => returned[1].offset = call.shift
    /\ (/\ Returned("cross_correlate")
        /\ call.how = "candidate delayed"
        /\ SumSeq(call.signal1) = 0) => returned[1].offset = -call.shift

\* cross_correlate has returned MaxShift for two periods of a wave and the
\* same wave after MaxShift samples of silence
C15_Witness ==
    /\ Returned("cross_correlate")
    /\ call.how = "reference delayed"
    /\ call.signal2 = Wave
    /\ call.shift = MaxShift
    /\ returned[1].offset = MaxShift

\* the first of the positions at which the first fifty words of the
\* reference compare best with the words of the candidate from there on,
\* 0 when they compare above 0 nowhere; in seconds at 2.5 words a second
BestPosition(video_transcript, audio_transcript, positions) ==
    LET video_words == Slice(tokens(video_transcript), 0, WindowWords)
        audio_words == tokens(audio_transcript)
        at(i) == ratio(video_words,
                       Slice(audio_words, i, i + Len(video_words)))
        top == {i \in positions :
                  /\ RatGT(at(i), Zero)
                  /\ \A j \in positions : RatGE(at(i), at(j))}
    IN  IF top = {}
        THEN Zero
        ELSE Rat(2 * (CHOOSE i \in top : \A j \in top : i <= j),
                 WordsPerSecondTimes2)

\* C17: find_time_offset_by_words compares the first 50 tokens of the
\* reference with a window at every position of the candidate's tokens, the
\* positions where the window runs past the end and candidates shorter than
\* the window included, and returns the position of the maximum / 2.5.
C17_EveryPositionCompared ==
    Returned("find_time_offset_by_words") =>
      returned[1] =
        BestPosition(call.video_transcript, call.audio_transcript,
                     0 .. Len(call.audio_transcript) - 1)

\* C17 as amended: the window is compared only at the positions where it
\* fits in the candidate, 0 .. len(candidate) - len(window); a candidate with
\* fewer tokens than the window is compared nowhere and gets offset 0.
C17_OnlyWholeWindowsCompared ==
    Returned("find_time_offset_by_words") =>
      returned[1] =
        BestPosition(call.video_transcript, call.audio_transcript,
                     0 .. Len(call.audio_transcript)
                            - Min(Len(call.video_transcript), WindowWords))

\* find_time_offset_by_words has found the first fifty words of a longer
\* reference one word into the candidate
C17_Witness ==
    /\ Returned("find_time_offset_by_words")
    /\ call.video_transcript = LongSpeech
    /\ call.audio_transcript = <<7>> \o SubSeq(LongSpeech, 1, WindowWords)
    /\ returned[1] = Rat(2, WordsPerSecondTimes2)

=============================================================================
